---- MODULE Spec2Model ----
(***************************************************************************)
(* Model of http_server.py: a single-connection HTTP/1.1 file server.      *)
(* Text and bytes are sequences of one-character strings, so that the      *)
(* slicing, splitting and joining the code does are computed, not assumed. *)
(***************************************************************************)
EXTENDS Integers, Sequences, FiniteSets, TLC

(* ----------------------------- bounds ---------------------------------- *)
\* number of connections the model lets the server accept
MaxConns == 3
\* number of empty receives (peer finished, terminator never seen) tracked
MaxIdle == 1
\* number of interrupt signals delivered during a run
MaxInterrupts == 1
\* number of failed connections the model counts
MaxFailed == 1

(* ------------------------ Python string primitives --------------------- *)
\* s[n:]
Drop(s, n) == IF n >= Len(s) THEN <<>> ELSE SubSeq(s, n + 1, Len(s))

\* s[-n:]
LastN(s, n) == IF n >= Len(s) THEN s ELSE SubSeq(s, Len(s) - n + 1, Len(s))

\* the least element of a set of positions, 0 for the empty set
FirstOf(hits) == IF hits = {} THEN 0 ELSE CHOOSE i \in hits : \A j \in hits : i <= j

\* s.find(sub) + 1 : position of the first occurrence of sub in s, 0 when absent
Find(s, sub) ==
    FirstOf({i \in 1..(Len(s) - Len(sub) + 1) : SubSeq(s, i, i + Len(sub) - 1) = sub})

\* sub in s
Contains(s, sub) == Find(s, sub) # 0

\* s.split(sep); SplitAt is given the position of the first separator
RECURSIVE Split(_, _), SplitAt(_, _, _)
Split(s, sep) == SplitAt(s, sep, Find(s, sep))

SplitAt(s, sep, i) ==
    IF i = 0 THEN <<s>>
    ELSE <<SubSeq(s, 1, i - 1)>> \o Split(Drop(s, i + Len(sep) - 1), sep)

\* sep.join(parts)
RECURSIVE Join(_, _)
Join(parts, sep) ==
    IF parts = <<>> THEN <<>>
    ELSE IF Len(parts) = 1 THEN parts[1]
    ELSE parts[1] \o sep \o Join(Tail(parts), sep)

(* ------------------------------ literals ------------------------------- *)
CRLF == <<"\r","\n">>
SP == <<" ">>
SLASH == <<"/">>
GET == <<"G","E","T">>
\* "HTTP/1.1 200 OK"
STATUS_OK == <<"H","T","T","P","/","1",".","1"," ","2","0","0"," ","O","K">>
\* "Content-Type: "
CONTENT_TYPE == <<"C","o","n","t","e","n","t","-","T","y","p","e",":"," ">>
\* "HTTP/1.1 405 Method Not Allowed"
STATUS_405 == <<"H","T","T","P","/","1",".","1"," ","4","0","5"," ","M","e","t","h","o","d"," ","N","o","t"," ","A","l","l","o","w","e","d">>
\* "You can't do that on this server!"
BODY_405 == <<"Y","o","u"," ","c","a","n","'","t"," ","d","o"," ","t","h","a","t"," ","o","n"," ","t","h","i","s"," ","s","e","r","v","e","r","!">>
\* "HTTP/1.1 404 Not Found"
STATUS_404 == <<"H","T","T","P","/","1",".","1"," ","4","0","4"," ","N","o","t"," ","F","o","u","n","d">>
\* "./webroot/" and "./webroot"
ROOT_SLASH == <<".","/","w","e","b","r","o","o","t","/">>
ROOT_BARE == <<".","/","w","e","b","r","o","o","t">>
\* "text/plain", "text/html", "text/x-python", "image/png"
TEXT_PLAIN == <<"t","e","x","t","/","p","l","a","i","n">>
TEXT_HTML == <<"t","e","x","t","/","h","t","m","l">>
TEXT_PYTHON == <<"t","e","x","t","/","x","-","p","y","t","h","o","n">>
IMAGE_PNG == <<"i","m","a","g","e","/","p","n","g">>
\* ".py"
DOT_PY == <<".","p","y">>
\* "make_time.py"
MAKE_TIME == <<"m","a","k","e","_","t","i","m","e",".","p","y">>
\* the value of a name that was never bound
None == <<"None">>

(* --------------------------- Response Builder -------------------------- *)
response_ok(body, mimetype) ==
    Join(<<STATUS_OK, CONTENT_TYPE \o mimetype, <<>>, body>>, CRLF)

response_method_not_allowed == Join(<<STATUS_405, <<>>, BODY_405>>, CRLF)

response_not_found == Join(<<STATUS_404>>, CRLF)

(* ---------------------------- Request Parser --------------------------- *)
\* the whole request text, not its first line, split on spaces
RequestFields_whole_text(request) == Split(request, SP)

\* request.split("\r\n")[0].split(" ")
RequestFields(request) == Split(Split(request, CRLF)[1], SP)

\* lines 78-81 without the method test
CheckFields_any_method(fields) ==
    IF Len(fields) # 3 THEN [exc |-> "ValueError", path |-> None]
    ELSE [exc |-> "none", path |-> fields[2]]

\* lines 76-81 answering a first line of the wrong shape as they answer an
\* unsupported method
CheckFields_lenient(fields) ==
    IF Len(fields) # 3 \/ fields[1] # GET
    THEN [exc |-> "NotImplementedError", path |-> None]
    ELSE [exc |-> "none", path |-> fields[2]]

\* the tuple unpacking raises ValueError unless there are exactly three
\* fields; a method other than GET raises NotImplementedError
CheckFields(fields) ==
    IF Len(fields) # 3 THEN [exc |-> "ValueError", path |-> None]
    ELSE IF fields[1] # GET THEN [exc |-> "NotImplementedError", path |-> None]
    ELSE [exc |-> "none", path |-> fields[2]]

parse_request(request) == CheckFields(RequestFields(request))

(* --------------------------- the filesystem ---------------------------- *)
\* names of the entries of the working directory and of the document root
N_webroot == <<"w","e","b","r","o","o","t">>
N_a_txt == <<"a",".","t","x","t">>
N_xmake == <<"x">> \o MAKE_TIME
\* a file next to the document root whose name is what "./webroot" + path
\* spells for the path xmake_time.py
N_webrootxmake == N_webroot \o N_xmake
N_o_py == <<"o",".","p","y">>
N_img == <<"i","m","g">>
N_s_png == <<"s",".","p","n","g">>
N_e == <<"e">>
N_d_html == <<"d",".","h","t","m","l">>
N_c == <<"c">>
DOTDOT == <<".",".">>

Dir(entries) == [kind |-> "dir", entries |-> entries, bytes |-> <<>>]
File(bytes) == [kind |-> "file", entries |-> <<>>, bytes |-> bytes]

\* The working directory holding the document root ./webroot; a location is
\* the sequence of names from the working directory.  Directory entries are
\* kept in the order the filesystem enumerates them.  src is the text of
\* make_time.py.
MkFS(src) ==
       (<<>> :> Dir(<<N_webroot, N_webrootxmake>>))
    @@ (<<N_webrootxmake>> :> File(<<"p","w">>))
    @@ (<<N_webroot>> :> Dir(<<N_xmake, N_img, N_d_html, MAKE_TIME, N_e, N_o_py, N_a_txt>>))
    @@ (<<N_webroot, N_a_txt>> :> File(<<"h","i">>))
    @@ (<<N_webroot, MAKE_TIME>> :> File(src))
    @@ (<<N_webroot, N_xmake>> :> File(<<"p","x">>))
    @@ (<<N_webroot, N_o_py>> :> File(<<"p","o">>))
    @@ (<<N_webroot, N_img>> :> Dir(<<N_s_png>>))
    @@ (<<N_webroot, N_img, N_s_png>> :> File(<<"P","N","G">>))
    @@ (<<N_webroot, N_e>> :> Dir(<<>>))
    @@ (<<N_webroot, N_d_html>> :> Dir(<<N_c>>))
    @@ (<<N_webroot, N_d_html, N_c>> :> File(<<"c">>))

\* Texts of make_time.py the model runs the server with.  A script is a
\* sequence of two-character statements: "p" c prints c (and a line feed),
\* "r" k raises the error named by k.
ScriptSources ==
    { <<"p","t">>,
      <<"p","t","p","u">>,
      <<>>,
      <<"p","t","r","N">>,
      <<"r","I">>,
      <<"r","F">>,
      <<"p","t","r","V">>,
      <<"r","K">> }

ErrorOf(k) ==
    CASE k = "N" -> "NameError"
      [] k = "I" -> "NotImplementedError"
      [] k = "F" -> "FileNotFoundError"
      [] k = "K" -> "KeyboardInterrupt"
      [] OTHER -> "ValueError"

\* the statement at the head of src followed by the outcome rest of the
\* statements after it
ExecThen(src, rest) ==
    IF src[1] = "p"
    THEN [out |-> <<src[2], "\n">> \o rest.out, exc |-> rest.exc]
    ELSE rest

\* exec(text): what the script writes to sys.stdout and how it ends
RECURSIVE Exec(_)
Exec(src) ==
    IF Len(src) < 2 THEN [out |-> <<>>, exc |-> "none"]
    ELSE IF src[1] = "r" THEN [out |-> <<>>, exc |-> ErrorOf(src[2])]
    ELSE ExecThen(src, Exec(Drop(src, 2)))

\* where one component of a name leads from directory loc: an empty or "."
\* component stays where it is, ".." goes up
StepTo(loc, comp) ==
    IF comp = <<>> \/ comp = <<".">> THEN loc
    ELSE IF comp = DOTDOT
         THEN (IF loc = <<>> THEN loc ELSE SubSeq(loc, 1, Len(loc) - 1))
    ELSE loc \o <<comp>>

\* Path resolution by the operating system, one component at a time from
\* location loc
RECURSIVE Walk(_, _, _)
Walk(fsys, loc, comps) ==
    IF loc \notin DOMAIN fsys THEN [err |-> "ENOENT", loc |-> loc]
    ELSE IF comps = <<>> THEN [err |-> "ok", loc |-> loc]
    ELSE IF fsys[loc].kind # "dir" THEN [err |-> "ENOTDIR", loc |-> loc]
    ELSE Walk(fsys, StepTo(loc, Head(comps)), Tail(comps))

Resolve(fsys, name) == Walk(fsys, <<>>, Split(name, SLASH))

\* open(name, "rb").read(), r being where the name resolves
ReadAt(fsys, r) ==
    IF r.err = "ENOENT" THEN [exc |-> "FileNotFoundError", bytes |-> <<>>, loc |-> r.loc]
    ELSE IF r.err = "ENOTDIR" THEN [exc |-> "NotADirectoryError", bytes |-> <<>>, loc |-> r.loc]
    ELSE IF fsys[r.loc].kind = "dir" THEN [exc |-> "IsADirectoryError", bytes |-> <<>>, loc |-> r.loc]
    ELSE [exc |-> "none", bytes |-> fsys[r.loc].bytes, loc |-> r.loc]

open_read(fsys, name) == ReadAt(fsys, Resolve(fsys, name))

\* pathlib.Path(name): the components of name without the empty and "." ones
PathParts(name) ==
    SelectSeq(Split(name, SLASH), LAMBDA c : c # <<>> /\ c # <<".">>)

\* str(pathlib.Path(...))
PathStr(parts) == Join(parts, SLASH)

\* the children of the directory whose path has the components parts
ChildrenOf(parts, entries) == [i \in 1..Len(entries) |-> parts \o <<entries[i]>>]

\* pathlib.Path(name).iterdir(), r being where the name resolves: the
\* children as paths, in enumeration order
IterAt(fsys, name, r) ==
    IF r.err = "ENOENT" THEN [exc |-> "FileNotFoundError", children |-> <<>>]
    ELSE IF r.err = "ENOTDIR" \/ fsys[r.loc].kind # "dir"
         THEN [exc |-> "NotADirectoryError", children |-> <<>>]
    ELSE [exc |-> "none", children |-> ChildrenOf(PathParts(name), fsys[r.loc].entries)]

iterdir(fsys, name) == IterAt(fsys, name, Resolve(fsys, name))

(* ------------------------------ mimetypes ------------------------------ *)
\* the greatest element of a set of positions, 0 for the empty set
LastOf(hits) == IF hits = {} THEN 0 ELSE CHOOSE i \in hits : \A j \in hits : j <= i

\* s.rfind(ch) + 1
RFind(s, ch) == LastOf({i \in 1..Len(s) : s[i] = ch})

\* posixpath.splitext(url)[1], sep and dot being the positions of the last
\* "/" and the last "."
ExtAt(url, sep, dot) ==
    IF dot > sep /\ (\E i \in (sep + 1)..(dot - 1) : url[i] # ".")
    THEN Drop(url, dot - 1)
    ELSE <<>>

SplitExt(url) == ExtAt(url, RFind(url, "/"), RFind(url, "."))

\* the type of an extension in mimetypes.types_map, for the extensions that occur
TypeOfExt(ext) ==
    CASE ext = <<".","t","x","t">> -> TEXT_PLAIN
      [] ext = <<".","h","t","m","l">> -> TEXT_HTML
      [] ext = DOT_PY -> TEXT_PYTHON
      [] ext = <<".","p","n","g">> -> IMAGE_PNG
      [] OTHER -> None

\* mimetypes.MimeTypes().guess_type(url)[0]
guess_type(url) == TypeOfExt(SplitExt(url))

(* ----------------------- Script Runner, Path Resolver ------------------ *)
\* sys.stdout is "real" (the process's own stream) or "buffer" (a StringIO
\* left installed by an earlier redirect)

\* the redirect of line 18 is skipped: the script writes to the stream that
\* was active before
stdout_io_enter_no_redirect(sys_stdout) == [old |-> sys_stdout, installed |-> sys_stdout]

\* stdout_io up to its yield: remember the active sink, install a new buffer
stdout_io_enter(sys_stdout) == [old |-> sys_stdout, installed |-> "buffer"]

\* stdout_io from its yield on: the statement after the yield runs only when
\* the body of the with statement did not raise
stdout_io_exit(ctx, raised) == IF raised THEN ctx.installed ELSE ctx.old

\* the capture comes back empty when the call was made while an earlier
\* redirect was still installed
Captured_unless_redirected(ctx, out) == IF ctx.old = "real" THEN out ELSE <<>>

\* what has been written into the StringIO of this call when the script
\* wrote out to sys.stdout: output.getvalue() of line 152
Captured(ctx, out) == IF ctx.installed = "buffer" THEN out ELSE <<>>

\* lines 149-155 once the script's text has been opened (text) and, when
\* that succeeded, executed (run); real_out is what the script's writes put
\* on the process's own stream
RunOutcome(ctx, text, run) ==
    [exc |-> run.exc,
     content |-> IF run.exc = "none" THEN Captured(ctx, run.out) ELSE None,
     real_out |-> IF ctx.installed = "real" THEN run.out ELSE <<>>,
     probed |-> TRUE,
     mime_type |-> IF run.exc = "none" THEN TEXT_HTML ELSE None,
     sys_stdout |-> stdout_io_exit(ctx, run.exc # "none"),
     ran |-> IF text.exc = "none" THEN {text.loc} ELSE {},
     in_script |-> TRUE]

\* the body of the with statement of line 149: open, read and exec
RunText(ctx, text) ==
    RunOutcome(ctx, text,
               IF text.exc = "none" THEN Exec(text.bytes)
               ELSE [out |-> <<>>, exc |-> text.exc])

\* run_python_script(path) called with sys.stdout = sys_stdout
run_python_script(path, fsys, sys_stdout) ==
    RunText(stdout_io_enter(sys_stdout), open_read(fsys, ROOT_BARE \o path))

valid_scripts == <<MAKE_TIME>>

\* the test of line 135 without the allow-list
is_valid_script_any_py(path) == LastN(path, 3) = DOT_PY

\* path[-3:] == ".py" and path[1:] in valid_scripts
is_valid_script(path) ==
    /\ LastN(path, 3) = DOT_PY
    /\ \E i \in 1..Len(valid_scripts) : valid_scripts[i] = Drop(path, 1)

\* the text built from the children: str(child)[8:] + "\r\n" for each
RECURSIVE ListingText(_)
ListingText(children) ==
    IF children = <<>> THEN <<>>
    ELSE Drop(PathStr(Head(children)), 8) \o CRLF \o ListingText(Tail(children))

\* lines 122-123
DefaultPlain(guessed) == IF guessed = None THEN TEXT_PLAIN ELSE guessed

\* mime_type after lines 120-124
GuessedMime(path) == DefaultPlain(guess_type(ROOT_SLASH \o path))

\* what response_path returns: exc is the error it raises ("none": it
\* returns content and mime_type), ran the files it executed, in_script
\* whether the script runner was entered, probed that the filesystem was
\* looked at
Returned(content, mime_type, sys_stdout) ==
    [exc |-> "none", content |-> content, mime_type |-> mime_type,
     sys_stdout |-> sys_stdout, ran |-> {}, in_script |-> FALSE,
     real_out |-> <<>>, probed |-> TRUE]

Raised(exc, sys_stdout) ==
    [exc |-> exc, content |-> None, mime_type |-> None,
     sys_stdout |-> sys_stdout, ran |-> {}, in_script |-> FALSE,
     real_out |-> <<>>, probed |-> TRUE]

\* lines 138-139, f being the outcome of the open and read
ReadFile(f, mime_type, sys_stdout) ==
    IF f.exc # "none" THEN Raised(f.exc, sys_stdout)
    ELSE Returned(f.bytes, mime_type, sys_stdout)

\* lines 127-139, listing being the outcome of iterdir
AfterListing(path, fsys, sys_stdout, listing) ==
    IF listing.exc = "FileNotFoundError" THEN Raised("NameError", sys_stdout)
    ELSE IF listing.exc = "NotADirectoryError"
    THEN IF is_valid_script(path)
         THEN run_python_script(path, fsys, sys_stdout)
         ELSE ReadFile(open_read(fsys, ROOT_SLASH \o path), GuessedMime(path), sys_stdout)
    ELSE Returned(ListingText(listing.children), GuessedMime(path), sys_stdout)

\* response_path(path) called with sys.stdout = sys_stdout
response_path(path, fsys, sys_stdout) ==
    AfterListing(path, fsys, sys_stdout, iterdir(fsys, ROOT_SLASH \o path))

(* ------------------------------ requests ------------------------------- *)
POST == <<"P","O","S","T">>
get_lower == <<"g","e","t">>
HTTP11 == <<"H","T","T","P","/","1",".","1">>
TERMINATOR == CRLF \o CRLF
\* conn.recv(1024)
RECV_SIZE == 1024

\* request paths the clients of the model ask for
GetPaths ==
    { SLASH,
      <<>>,
      SLASH \o N_a_txt,
      SLASH \o N_a_txt \o <<"/","f">>,
      <<"/","n">>,
      <<"/","n",".","t","x","t">>,
      SLASH \o MAKE_TIME,
      SLASH \o SLASH \o MAKE_TIME,
      N_xmake,
      SLASH \o N_xmake,
      SLASH \o N_o_py,
      SLASH \o N_img,
      SLASH \o N_img \o SLASH \o N_s_png,
      SLASH \o N_e,
      SLASH \o N_d_html }

OtherMethodPaths == { SLASH, <<"/","n">>, SLASH \o MAKE_TIME }

FirstLines ==
    {GET \o SP \o p \o SP \o HTTP11 : p \in GetPaths \ {<<>>}}
    \cup {POST \o SP \o p \o SP \o HTTP11 : p \in OtherMethodPaths}
    \cup { get_lower \o SP \o SLASH \o SP \o HTTP11,
           \* an empty path: "GET  HTTP/1.1" has three fields, the second empty
           GET \o SP \o SP \o HTTP11,
           \* fewer or more than three fields
           GET \o SP \o SLASH,
           POST \o SP \o SLASH,
           GET \o SP \o SP \o SLASH \o SP \o HTTP11,
           GET \o SP \o SLASH \o SP \o HTTP11 \o SP \o <<"x">>,
           POST \o SP \o SLASH \o SP \o HTTP11 \o SP,
           <<>> }

\* what a client sends: a first line and the end of the header section, or
\* a first line that is never followed by the terminator
\* first lines that are also sent followed by a header line or by bytes
\* after the terminator
LinesWithMore ==
    { GET \o SP \o SLASH \o N_a_txt \o SP \o HTTP11,
      POST \o SP \o SLASH \o SP \o HTTP11 }

HEADER == <<"H", ":", " ", "x">>
MORE == <<"b", "o", "d">>

Requests ==
    {l \o TERMINATOR : l \in FirstLines}
    \cup { GET \o SP \o SLASH \o SP \o HTTP11 \o CRLF }
    \cup {l \o CRLF \o HEADER \o TERMINATOR : l \in LinesWithMore}
    \cup {l \o TERMINATOR \o MORE : l \in LinesWithMore}

(* ------------------------------- state --------------------------------- *)
VARIABLES
    fs,           \* content of the working directory (never written)
    pc,           \* where server() is: accept, recv, process, send, close, returned
    sock,         \* the listening socket: "listening" or "closed"
    nconn,        \* connections accepted so far; conn is connection nconn
    nclosed,      \* conn.close() calls so far
    open_conns,   \* accepted connections not yet closed
    peer,         \* bytes of the client of conn not yet received
    request,      \* the request text accumulated from conn
    response,     \* the response built for conn
    sent,         \* bytes sendall wrote to conn
    nsend,        \* conn.sendall calls on conn
    logged,       \* traceback printed by the handler of conn
    raised,       \* error raised by the pipeline for conn, "none" if none
    ran,          \* files executed for conn
    in_script,    \* the script runner was entered for conn
    sys_stdout,   \* the active output sink
    idle,         \* empty receives on conn
    interrupts,   \* interrupt signals delivered
    last_interrupt, \* where an interrupt found the server while conn was served
    server_logged, \* traceback printed by the outer handler of server()
    nfailed,      \* connections whose handler printed a traceback, up to MaxFailed
    real_out,     \* what the script run for conn wrote to the process's own stream
    earlier,      \* history: the pipeline's outcome for one connection served before
    nrecv,  \* receives on conn that returned data
    npipeline,  \* times the pipeline was invoked for conn
    probed   \* response_path was called for conn

vars == <<fs, pc, sock, nconn, nclosed, open_conns, peer, request, response, sent,
          nsend, logged, raised, ran, in_script, sys_stdout, idle, interrupts,
          last_interrupt, server_logged, nfailed,
          real_out,
          earlier,
          nrecv,
          npipeline,
          probed>>

\* one more failed connection, as far as the model counts them
Counted(n) == IF n < MaxFailed THEN n + 1 ELSE n

\* per-connection variables as they are when no connection is being served
NoConnection ==
    /\ peer' = <<>>
    /\ request' = <<>>
    /\ response' = None
    /\ sent' = None
    /\ nsend' = 0
    /\ logged' = FALSE
    /\ raised' = "none"
    /\ ran' = {}
    /\ in_script' = FALSE
    /\ idle' = 0
    /\ last_interrupt' = "none"
    /\ real_out' = <<>>
    /\ nrecv' = 0
    /\ npipeline' = 0
    /\ probed' = FALSE

Init ==
    /\ fs \in {MkFS(src) : src \in ScriptSources}
    /\ pc = "accept"
    /\ sock = "listening"
    /\ nconn = 0
    /\ nclosed = 0
    /\ open_conns = {}
    /\ peer = <<>>
    /\ request = <<>>
    /\ response = None
    /\ sent = None
    /\ nsend = 0
    /\ logged = FALSE
    /\ raised = "none"
    /\ ran = {}
    /\ in_script = FALSE
    /\ sys_stdout = "real"
    /\ idle = 0
    /\ interrupts = 0
    /\ last_interrupt = "none"
    /\ server_logged = FALSE
    /\ nfailed = 0
    /\ real_out = <<>>
    /\ earlier = {}
    /\ nrecv = 0
    /\ npipeline = 0
    /\ probed = FALSE

(* ------------------------- Connection Handler -------------------------- *)
\* lines 188-194: the response for the outcome rp of the pipeline, or the
\* error that leaves the inner try statement (exc, "none" when a response
\* is built)
Respond(rp) ==
    [response |-> CASE rp.exc = "none" -> response_ok(rp.content, rp.mime_type)
                    [] rp.exc = "NotImplementedError" -> response_method_not_allowed
                    [] rp.exc = "NameError" -> response_not_found
                    [] OTHER -> None,
     exc |-> IF rp.exc \in {"none", "NotImplementedError", "NameError"} THEN "none" ELSE rp.exc,
     raised |-> rp.exc,
     sys_stdout |-> rp.sys_stdout,
     ran |-> rp.ran,
     in_script |-> rp.in_script,
     real_out |-> rp.real_out,
     probed |-> rp.probed]

\* parse_request raised: line 186 is not reached
ParseFailed(exc, so) == [Raised(exc, so) EXCEPT !.probed = FALSE]

\* lines 185-186, pr being the outcome of parse_request
AfterParse(pr, fsys, so) ==
    IF pr.exc # "none" THEN ParseFailed(pr.exc, so) ELSE response_path(pr.path, fsys, so)

\* the path is resolved before the method is looked at
Pipeline_resolve_first(req, fsys, so) ==
    IF parse_request(req).exc = "NotImplementedError"
    THEN Respond([response_path(RequestFields(req)[2], fsys, so) EXCEPT
                     !.exc = IF @ = "none" THEN "NotImplementedError" ELSE @])
    ELSE Respond(AfterParse(parse_request(req), fsys, so))

\* lines 184-194: the pipeline and the two handlers around it
Pipeline(req, fsys, so) == Respond(AfterParse(parse_request(req), fsys, so))

\* sock.accept() returns the connection of a client that will send text
Accept(text) ==
    /\ pc = "accept"
    /\ nconn < MaxConns
    /\ nconn' = nconn + 1
    /\ open_conns' = open_conns \cup {nconn + 1}
    /\ peer' = text
    /\ request' = <<>>
    /\ pc' = "recv"
    /\ UNCHANGED <<fs, sock, nclosed, response, sent, nsend, logged, raised, ran,
                   in_script, sys_stdout, idle, interrupts, last_interrupt, server_logged,
                   nfailed, real_out, earlier, nrecv, npipeline, probed>>

\* sock.accept() raises: the outer handler prints the traceback and server()
\* returns
AcceptFails ==
    /\ pc = "accept"
    /\ server_logged' = TRUE
    /\ pc' = "returned"
    /\ UNCHANGED <<fs, sock, nconn, nclosed, open_conns, peer, request, response, sent,
                   nsend, logged, raised, ran, in_script, sys_stdout, idle, interrupts,
                   last_interrupt,
                   nfailed, real_out, earlier, nrecv, npipeline, probed>>

\* one round of the receive loop with n bytes of data
Recv(n) ==
    /\ pc = "recv"
    /\ n \in 1..RECV_SIZE
    /\ n <= Len(peer)
    /\ request' = request \o SubSeq(peer, 1, n)
    /\ nrecv' = nrecv + 1
    /\ peer' = Drop(peer, n)
    /\ pc' = IF Contains(request', TERMINATOR) THEN "process" ELSE "recv"
    /\ UNCHANGED <<fs, sock, nconn, nclosed, open_conns, response, sent, nsend, logged,
                   raised, ran, in_script, sys_stdout, idle, interrupts, last_interrupt,
                   server_logged,
                   nfailed, real_out, earlier, npipeline, probed>>

\* a receive that returns no data is taken for the end of the request
RecvEmpty_eof ==
    /\ pc = "recv"
    /\ peer = <<>>
    /\ idle < MaxIdle
    /\ idle' = idle + 1
    /\ pc' = "process"
    /\ UNCHANGED <<fs, sock, nconn, nclosed, open_conns, peer, request, response, sent, nsend,
                   logged, raised, ran, in_script, sys_stdout, interrupts, last_interrupt,
                   server_logged,
                   nfailed, real_out, earlier, nrecv, npipeline, probed>>

\* one round of the receive loop after the peer has finished sending:
\* recv returns no data and the loop goes round again
RecvEmpty ==
    /\ pc = "recv"
    /\ peer = <<>>
    /\ idle < MaxIdle
    /\ idle' = idle + 1
    /\ request' = request \o <<>>
    /\ pc' = IF Contains(request', TERMINATOR) THEN "process" ELSE "recv"
    /\ UNCHANGED <<fs, sock, nconn, nclosed, open_conns, peer, response, sent, nsend,
                   logged, raised, ran, in_script, sys_stdout, interrupts, last_interrupt,
                   server_logged,
                   nfailed, real_out, earlier, nrecv, npipeline, probed>>

\* a receive failure that is not caught inside the accept loop
RecvFails_unguarded ==
    /\ pc = "recv"
    /\ server_logged' = TRUE
    /\ pc' = "returned"
    /\ UNCHANGED <<fs, sock, nconn, nclosed, open_conns, peer, request, response, sent,
                   nsend, logged, raised, ran, in_script, sys_stdout, idle, interrupts,
                   last_interrupt, nfailed, real_out, earlier, nrecv, npipeline, probed>>

\* conn.recv or the decoding raises: caught by the bare except of line 197
RecvFails ==
    /\ pc = "recv"
    /\ logged' = TRUE
    /\ pc' = "close"
    /\ nfailed' = Counted(nfailed)
    /\ UNCHANGED <<fs, sock, nconn, nclosed, open_conns, peer, request, response, sent,
                   nsend, raised, ran, in_script, sys_stdout, idle, interrupts,
                   last_interrupt, server_logged, real_out, earlier, nrecv, npipeline, probed>>

\* the effect of the pipeline's outcome r on the connection being served
Outcome(r) ==
    /\ response' = r.response
    /\ raised' = r.raised
    /\ sys_stdout' = r.sys_stdout
    /\ ran' = r.ran
    /\ in_script' = r.in_script
    /\ real_out' = r.real_out
    /\ probed' = r.probed
    /\ npipeline' = npipeline + 1
    /\ logged' = (r.exc # "none")
    /\ nfailed' = IF r.exc # "none" THEN Counted(nfailed) ELSE nfailed
    /\ pc' = IF r.exc = "none" THEN "send" ELSE "close"

\* lines 182-194, and line 198 when an error leaves the inner try statement
Process ==
    /\ pc = "process"
    /\ Outcome(Pipeline(request, fs, sys_stdout))
    /\ UNCHANGED <<fs, sock, nconn, nclosed, open_conns, peer, request, sent, nsend,
                   idle, interrupts, last_interrupt, server_logged, earlier, nrecv>>

\* the outcome r of the pipeline, written down for later comparison
Remember(r) ==
    earlier' = {[request |-> request, sys_stdout |-> sys_stdout,
                 response |-> r.response]}

OutcomeRemembered(r) == Outcome(r) /\ Remember(r)

\* Process, with the outcome kept in the history variable
ProcessAndRemember ==
    /\ pc = "process"
    /\ earlier = {}
    /\ OutcomeRemembered(Pipeline(request, fs, sys_stdout))
    /\ UNCHANGED <<fs, sock, nconn, nclosed, open_conns, peer, request, sent, nsend,
                   idle, interrupts, last_interrupt, server_logged, nrecv>>

\* conn.sendall(response)
Send ==
    /\ pc = "send"
    /\ sent' = response
    /\ nsend' = nsend + 1
    /\ pc' = "close"
    /\ UNCHANGED <<fs, sock, nconn, nclosed, open_conns, peer, request, response, logged,
                   raised, ran, in_script, sys_stdout, idle, interrupts, last_interrupt,
                   server_logged,
                   nfailed, real_out, earlier, nrecv, npipeline, probed>>

\* conn.sendall(response) raises: how much was written is not known
SendFails ==
    /\ pc = "send"
    /\ nsend' = nsend + 1
    /\ logged' = TRUE
    /\ pc' = "close"
    /\ nfailed' = Counted(nfailed)
    /\ UNCHANGED <<fs, sock, nconn, nclosed, open_conns, peer, request, response, sent,
                   raised, ran, in_script, sys_stdout, idle, interrupts, last_interrupt,
                   server_logged, real_out, earlier, nrecv, npipeline, probed>>

\* the next round of the accept loop without conn.close()
Close_leak ==
    /\ pc = "close"
    /\ pc' = "accept"
    /\ NoConnection
    /\ UNCHANGED <<fs, sock, nconn, nclosed, open_conns, sys_stdout, interrupts, server_logged, nfailed, earlier>>

\* the finally clause: conn.close(), then the next round of the accept loop
Close ==
    /\ pc = "close"
    /\ open_conns' = open_conns \ {nconn}
    /\ nclosed' = nclosed + 1
    /\ pc' = "accept"
    /\ NoConnection
    /\ UNCHANGED <<fs, sock, nconn, sys_stdout, interrupts, server_logged,
                   nfailed, earlier>>

\* KeyboardInterrupt while blocked in accept: lines 202-204
InterruptInAccept ==
    /\ pc = "accept"
    /\ interrupts < MaxInterrupts
    /\ interrupts' = interrupts + 1
    /\ last_interrupt' = pc
    /\ sock' = "closed"
    /\ pc' = "returned"
    /\ UNCHANGED <<fs, nconn, nclosed, open_conns, peer, request, response, sent, nsend,
                   logged, raised, ran, in_script, sys_stdout, idle, server_logged,
                   nfailed, real_out, earlier, nrecv, npipeline, probed>>

\* KeyboardInterrupt inside the inner try statement (receiving, processing
\* or sending): caught by the bare except of line 197
InterruptInConnection ==
    /\ pc \in {"recv", "process", "send"}
    /\ interrupts < MaxInterrupts
    /\ interrupts' = interrupts + 1
    /\ last_interrupt' = pc
    /\ logged' = TRUE
    /\ pc' = "close"
    /\ nfailed' = Counted(nfailed)
    /\ UNCHANGED <<fs, sock, nconn, nclosed, open_conns, peer, request, response, sent,
                   nsend, raised, ran, in_script, sys_stdout, idle, server_logged, real_out, earlier, nrecv, npipeline, probed>>

\* KeyboardInterrupt in the finally clause, before conn.close() has run:
\* it reaches the handler of lines 202-204
InterruptInFinally ==
    /\ pc = "close"
    /\ interrupts < MaxInterrupts
    /\ interrupts' = interrupts + 1
    /\ last_interrupt' = pc
    /\ sock' = "closed"
    /\ pc' = "returned"
    /\ UNCHANGED <<fs, nconn, nclosed, open_conns, peer, request, response, sent, nsend,
                   logged, raised, ran, in_script, sys_stdout, idle, server_logged,
                   nfailed, real_out, earlier, nrecv, npipeline, probed>>

\* the sizes of the chunks a client's text arrives in: all that is left, or
\* all but the last two bytes
ChunkSizes == {Len(peer), Len(peer) - 2}

Next ==
    \/ \E text \in Requests : Accept(text)
    \/ AcceptFails
    \/ \E n \in ChunkSizes : Recv(n)
    \/ RecvEmpty
    \/ RecvFails
    \/ Process
    \/ Send
    \/ SendFails
    \/ Close
    \/ InterruptInAccept
    \/ InterruptInConnection
    \/ InterruptInFinally

Spec == Init /\ [][Next]_vars

\* the server observed with the history variable
NextHistory == Next \/ ProcessAndRemember

SpecHistory == Init /\ [][NextHistory]_vars

(* ============================== properties ============================= *)
\* the pipeline has run for the connection being served
Processed == response # None \/ raised # "none"

\* the fields of the first line of the accumulated request
Fields == RequestFields(request)

\* the request is complete and its first line is a GET with three fields
IsGet == Contains(request, TERMINATOR) /\ Len(Fields) = 3 /\ Fields[1] = GET

\* the location the requested path names under the document root
Target == Resolve(fs, ROOT_SLASH \o Fields[2])

\* the body of a response: what follows the first empty line
BodyOf(resp) == Drop(resp, Find(resp, TERMINATOR) + 3)

\* "HTTP/1.1 405 Method Not Allowed\r\n\r\nYou can't do that on this server!"
Wire405 == STATUS_405 \o CRLF \o CRLF \o BODY_405

\* "HTTP/1.1 200 OK\r\nContent-Type: text/plain\r\n\r\n"
WirePlainHead == STATUS_OK \o CRLF \o CONTENT_TYPE \o TEXT_PLAIN \o CRLF \o CRLF

\* the path satisfies the condition under which a script may run: the text
\* after its first character is make_time.py and it ends in .py
AllowListed(path) == Drop(path, 1) = MAKE_TIME /\ LastN(path, 3) = DOT_PY

C2_StdoutRestored == pc = "accept" => sys_stdout = "real"

\* C3: when the executed script raised an error, nothing is sent on the
\* connection and the error is logged.
C3_ScriptErrorNoResponse ==
    (ran # {} /\ raised # "none") => (response = None /\ nsend = 0 /\ logged)

\* C4: a GET path with no filesystem mapping under the document root makes
\* response_path fail with the not-found condition, and what is sent is
\* exactly "HTTP/1.1 404 Not Found".
C4_MissingPath404 ==
    (Processed /\ IsGet /\ Target.err # "ok") =>
        /\ raised = "NameError"
        /\ response = STATUS_404
        /\ (sent # None => sent = STATUS_404)

\* C5: a request whose first line has three fields and a method other than
\* GET fails parsing with the unsupported-method condition and is answered
\* with exactly the 405 response, whatever the path.
C5_NonGet405 ==
    (Processed /\ Len(Fields) = 3 /\ Fields[1] # GET) =>
        /\ raised = "NotImplementedError"
        /\ response = Wire405
        /\ (sent # None => sent = Wire405)
        /\ (pc = "close" /\ ~logged => sent = Wire405 /\ nsend = 1)

C5_Witness ==
    /\ pc = "close"
    /\ Fields[1] = POST
    /\ Fields[2] = <<"/","n">>
    /\ sent = Wire405

C7_InterruptShutsDown ==
    interrupts > 0 =>
        /\ pc \in {"close", "returned"}
        /\ (pc = "returned" => sock = "closed")

\* C8: at most one accepted connection is open; while a connection is
\* served it is the only open one and all earlier ones were closed once
\* each; when the server waits for the next connection every accepted
\* connection has been closed exactly once; at most one response is written
\* to a connection, and only while it is open.
C8_OneAtATime ==
    /\ Cardinality(open_conns) <= 1
    /\ pc = "accept" => (open_conns = {} /\ nclosed = nconn)
    /\ pc \in {"recv", "process", "send", "close"} =>
          (open_conns = {nconn} /\ nclosed = nconn - 1)
    /\ pc = "returned" => (open_conns \subseteq {nconn} /\ nclosed = nconn - Cardinality(open_conns))
    /\ nsend <= 1
    /\ (nsend > 0 \/ sent # None) => nconn \in open_conns

C8_Witness ==
    /\ pc = "close"
    /\ nconn = 2
    /\ nclosed = 1
    /\ sent # None

\* C9: a complete request whose first line does not split on single spaces
\* into exactly three fields gets no bytes: when its servicing has ended the
\* failure is logged and nothing was sent, the pipeline raises ValueError
\* for it, and the server then closes the connection and goes back to
\* waiting (unless interrupted in the finally clause).
C9_MalformedNoResponse ==
    /\ [] ((pc \in {"send", "close"} /\ Contains(request, TERMINATOR) /\ Len(Fields) # 3) =>
              /\ pc = "close"
              /\ nsend = 0
              /\ sent = None
              /\ response = None
              /\ logged
              /\ (Processed => raised = "ValueError"))
    /\ [][ (pc = "close" /\ Contains(request, TERMINATOR) /\ Len(Fields) # 3
              /\ interrupts' = interrupts) =>
              (pc' = "accept" /\ open_conns' = {} /\ sock' = "listening") ]_vars

C9_Witness ==
    /\ pc = "close"
    /\ Fields = <<GET, <<>>, SLASH, HTTP11>>
    /\ raised = "ValueError"
    /\ logged
    /\ nsend = 0

\* the lines of a listing: the text split at \r\n, without the empty piece
\* after the last \r\n
ListingLines(body) ==
    LET pieces == Split(body, CRLF) IN SubSeq(pieces, 1, Len(pieces) - 1)

\* C10: a GET path that names a directory is answered with the 200 status
\* line, Content-Type text/plain and a listing in which every child of the
\* directory appears exactly once, each line ending in \r\n.
C10_DirectoryListingPlain ==
    (Processed /\ IsGet /\ Target.err = "ok" /\ fs[Target.loc].kind = "dir") =>
        LET entries == fs[Target.loc].entries
            body == BodyOf(response)
            lines == ListingLines(body)
        IN  /\ raised = "none"
            /\ SubSeq(response, 1, Len(WirePlainHead)) = WirePlainHead
            /\ body = Join(lines, CRLF) \o (IF lines = <<>> THEN <<>> ELSE CRLF)
            /\ Len(lines) = Len(entries)
            /\ \A i \in 1..Len(entries) :
                  Cardinality({j \in 1..Len(lines) :
                      \/ lines[j] = entries[i]
                      \/ LastN(lines[j], Len(entries[i]) + 1) = SLASH \o entries[i]}) = 1

\* the whole 200 response for a body and a MIME type, byte for byte
Wire200(mime, body) == STATUS_OK \o CRLF \o CONTENT_TYPE \o mime \o CRLF \o CRLF \o body

\* the MIME type a path's extension stands for, text/plain when it has none
\* or an unknown one
MimeOfPath(path) ==
    IF guess_type(path) = None THEN TEXT_PLAIN ELSE guess_type(path)

\* C11: for every GET path that resolves to an existing regular file other
\* than the allow-listed script webroot/make_time.py, the response is exactly
\* the 200 status line, the Content-Type line with the type of the path's
\* extension (text/plain when it has none), an empty line and the file's
\* bytes, and what is sent is that response and nothing else.
C11_FileServedExactly ==
    (Processed /\ IsGet /\ Target.err = "ok" /\ fs[Target.loc].kind = "file"
        /\ Target.loc # <<N_webroot, MAKE_TIME>>) =>
        /\ raised = "none"
        /\ response = Wire200(MimeOfPath(Fields[2]), fs[Target.loc].bytes)
        /\ sent \in {None, response}

\* the allow-listed script, as the file the path /make_time.py names
Script == fs[<<N_webroot, MAKE_TIME>>]

\* C12: a GET for the allow-listed script path, when the script completes
\* without error, is answered 200 with Content-Type text/html and a body that
\* is exactly what the script wrote to standard output, in order; nothing
\* the script wrote reaches the process's own output stream.
C12_ScriptOutputCaptured ==
    (Processed /\ IsGet /\ Fields[2] = SLASH \o MAKE_TIME
        /\ Exec(Script.bytes).exc = "none") =>
        /\ ran = {<<N_webroot, MAKE_TIME>>}
        /\ response = Wire200(TEXT_HTML, Exec(Script.bytes).out)
        /\ sent \in {None, response}
        /\ real_out = <<>>

C12_Witness ==
    /\ pc = "close"
    /\ sent = Wire200(TEXT_HTML, <<"t", "\n", "u", "\n">>)
    /\ Fields[2] = SLASH \o MAKE_TIME
    /\ Script.bytes = <<"p", "t", "p", "u">>
    /\ real_out = <<>>
    /\ sys_stdout = "real"

\* C13: when the pipeline runs for a request text that it has run for on an
\* earlier connection, with the content of the working directory unchanged,
\* it produces the same outcome (the same response bytes, or no response
\* both times), whatever was served in between and whatever the earlier
\* connections left behind.  (earlier holds the outcome of one connection,
\* the one being served or one served before it.)
C13_SameRequestSameResponse ==
    \A e \in earlier :
        (Processed /\ request = e.request) => response = e.response

\* the request was served with the process's own stream active, a failed
\* script run then left the redirect installed, and the request is served
\* again: its script run succeeds, so the redirect it finds was left by a
\* connection in between
C13_Witness ==
    \E e \in earlier :
        /\ Processed
        /\ nconn = 3
        /\ request = e.request
        /\ e.sys_stdout = "real"
        /\ sys_stdout = "buffer"
        /\ raised = "none"
        /\ ran # {}

\* C14: while the accumulated text does not contain the terminator, every
\* receive that returns, with data or (after the peer has finished sending)
\* with none, leaves the server in the receive loop of the same connection:
\* the connection stays open, nothing has been sent on it and no other
\* connection is accepted; a receive that returns no data leaves the
\* accumulated text as it was.  No step of the loop ends it on its own.
C14_NoTimeout ==
    /\ [](pc = "recv" =>
            /\ ~Contains(request, TERMINATOR)
            /\ nconn \in open_conns
            /\ nsend = 0
            /\ sent = None)
    /\ [][(pc = "recv" /\ ~logged' /\ ~Contains(request', TERMINATOR)) =>
            /\ pc' = "recv"
            /\ nconn' = nconn
            /\ open_conns' = open_conns
            /\ nsend' = 0
            /\ (peer = <<>> => request' = request)]_vars

C14_Witness ==
    /\ pc = "recv"
    /\ peer = <<>>
    /\ idle >= 1
    /\ request # <<>>
    /\ ~Contains(request, TERMINATOR)
    /\ nconn \in open_conns
    /\ nsend = 0

\* the text before the first CRLF
FirstLineOf(text) == SubSeq(text, 1, Find(text, CRLF) - 1)

\* C15: the pipeline runs at most once for a connection, only when the
\* accumulated text contains CRLF CRLF, and exactly once before anything is
\* sent; the receive loop ends as soon as the accumulated text contains the
\* terminator, however the text was cut into chunks; and two requests with
\* the same first line get the same response, whatever follows that line.
C15_OncePerConnectionFirstLineDecides ==
    /\ [](/\ npipeline <= 1
          /\ pc = "process" => (npipeline = 0 /\ Contains(request, TERMINATOR))
          /\ (pc = "send" \/ nsend > 0 \/ Processed) => npipeline = 1
          /\ \A e \in earlier :
                (Processed /\ FirstLineOf(request) = FirstLineOf(e.request)) =>
                    response = e.response)
    /\ [][/\ npipeline' > npipeline =>
                (pc = "process" /\ Contains(request, TERMINATOR))
          /\ (pc = "recv" /\ ~logged' /\ Contains(request', TERMINATOR)) =>
                pc' = "process"]_vars

\* a GET with a header line, received in two chunks that cut the terminator
\* in two, is answered like the same first line sent alone on an earlier
\* connection
C15_Witness ==
    \E e \in earlier :
        /\ pc = "close"
        /\ npipeline = 1
        /\ nrecv = 2
        /\ Contains(request, HEADER)
        /\ ~Contains(e.request, HEADER)
        /\ FirstLineOf(request) = FirstLineOf(e.request)
        /\ sent = e.response
        /\ sent = Wire200(TEXT_PLAIN, <<"h", "i">>)

\* C16: the listening socket is open for as long as the accept loop
\* continues, and whenever server() has stopped running, after an interrupt
\* or after a failure outside a connection, the listening socket has been
\* closed.
C16_ListeningSocketClosedOnReturn ==
    /\ pc # "returned" => sock = "listening"
    /\ pc = "returned" => sock = "closed"

\* C17: for a request whose first line has three fields and a method other
\* than GET, the pipeline stops at the method test: response_path is not
\* called, so the filesystem is not looked at and no script runs, and the
\* response is the 405 one, also when the path names nothing (no 404) and
\* when it is the allow-listed script path.
C17_MethodRejectedBeforeResolution ==
    (Processed /\ Len(Fields) = 3 /\ Fields[1] # GET) =>
        /\ ~probed
        /\ ran = {}
        /\ ~in_script
        /\ real_out = <<>>
        /\ raised = "NotImplementedError"
        /\ response = Wire405

C17_Witness ==
    /\ pc = "close"
    /\ sent = Wire405
    /\ Fields = <<POST, SLASH \o MAKE_TIME, HTTP11>>
    /\ Script.bytes = <<"p", "t">>
    /\ ~probed
    /\ ran = {}

====
